---- MODULE Spec2Model ----
(***************************************************************************)
(* Model of src/python_bridge.cc: the N-API bridge that embeds a Python    *)
(* interpreter.  Two parts:                                                *)
(*   - the value marshaller PyObjectToNapiValue, a pure function over the   *)
(*     interpreter's error indicator (specification SpecMarshal);          *)
(*   - the gateway executePythonSync with the process-wide flag            *)
(*     python_initialized, called from the JavaScript main thread          *)
(*     (specification Spec) or from several worker threads that loaded the *)
(*     addon (specification SpecConc).                                     *)
(* Strings (host strings, Python str objects, byte buffers) are sequences   *)
(* of code points or bytes, so that encoding, C-string truncation and      *)
(* decoding are computed rather than assumed.                              *)
(***************************************************************************)
EXTENDS Integers, Sequences, FiniteSets, TLC

VARIABLES
    python_initialized, \* the global flag of python_bridge.cc:11
    pyIsInitialized,    \* the embedded runtime's own state, Py_IsInitialized()
    pyErr,              \* the runtime's error indicator, PyErr_Occurred()
    pc,                 \* per thread: position inside executePythonSync
    arg,                \* per thread: the argument of the call in flight
    outcome,            \* per thread: what the call returned or threw
    didInit,            \* per thread: the call went through Py_Initialize
    ran,                \* per thread: the call invoked PyRun_String
    parsed,             \* per thread: the call reached ParsePythonJsonOutput
    calls,              \* number of calls issued so far
    pyInitSuccesses,    \* number of successful interpreter bring-ups
    prevFatal,          \* the last completed call failed interpreter bring-up
    crashed,            \* the process died (undefined behaviour took that way)
    mIn,                \* marshaller: the foreign value handed in
    mOut                \* marshaller: the host value returned

vars == <<python_initialized, pyIsInitialized, pyErr, pc, arg, outcome, didInit,
          ran, parsed, calls, pyInitSuccesses, prevFatal, crashed, mIn, mOut>>

gatewayVars == <<python_initialized, pyIsInitialized, pc, arg, outcome, didInit,
                 ran, parsed, calls, pyInitSuccesses, prevFatal, crashed>>

marshalVars == <<mIn, mOut>>

(***************************************************************************)
(* Bounds                                                                  *)
(***************************************************************************)
\* longest Python str (in code points) the model enumerates
MaxStrLen == 2

\* width of the C type long in the model; PyLong objects range beyond it
LongBits == 5

\* significand width of the host Number (a double) in the model
MantBits == 3

\* number of executePythonSync calls issued in one run
MaxCalls == 3

\* threads of the host that may call into the addon in SpecConc
NumThreads == 2

(***************************************************************************)
(* Text: code points, UTF-8, C strings                                     *)
(***************************************************************************)
\* NUL, 'a', U+00E9 (two UTF-8 bytes), U+D800 (a lone surrogate)
CodePoints == {0, 97, 233, 55296}

RECURSIVE StringsUpTo(_)
StringsUpTo(n) ==
    IF n = 0 THEN {<<>>}
    ELSE LET shorter == StringsUpTo(n - 1)
         IN  shorter \cup {Append(s, c) : s \in shorter, c \in CodePoints}

PyStrings == StringsUpTo(MaxStrLen)

IsSurrogate(cp) == cp >= 55296 /\ cp <= 57343

\* UTF-8 encoding of one code point (surrogates are not encodable)
UTF8EncodeCodePoint(cp) ==
    IF cp < 128 THEN <<cp>>
    ELSE IF cp < 2048 THEN <<192 + (cp \div 64), 128 + (cp % 64)>>
    ELSE <<224 + (cp \div 4096), 128 + ((cp \div 64) % 64), 128 + (cp % 64)>>

RECURSIVE UTF8Encode(_)
UTF8Encode(s) ==
    IF s = <<>> THEN <<>>
    ELSE UTF8EncodeCodePoint(Head(s)) \o UTF8Encode(Tail(s))

\* what a const char* reader sees of a byte buffer: the bytes before the first 0
RECURSIVE CStr(_)
CStr(bytes) ==
    IF bytes = <<>> \/ Head(bytes) = 0 THEN <<>>
    ELSE <<Head(bytes)>> \o CStr(Tail(bytes))

\* UTF-8 decoding done by napi_create_string_utf8 (U+FFFD for a malformed byte)
RECURSIVE UTF8Decode(_)
UTF8Decode(bytes) ==
    IF bytes = <<>> THEN <<>>
    ELSE LET b == Head(bytes)
             n == Len(bytes)
         IN  IF b < 128 THEN <<b>> \o UTF8Decode(Tail(bytes))
             ELSE IF b >= 192 /\ b < 224 /\ n >= 2
                  THEN <<(b - 192) * 64 + (bytes[2] - 128)>>
                       \o UTF8Decode(SubSeq(bytes, 3, n))
             ELSE IF b >= 224 /\ b < 240 /\ n >= 3
                  THEN <<(b - 224) * 4096 + (bytes[2] - 128) * 64 + (bytes[3] - 128)>>
                       \o UTF8Decode(SubSeq(bytes, 4, n))
             ELSE <<65533>> \o UTF8Decode(Tail(bytes))

\* PyUnicode_AsUTF8String / PyUnicode_AsUTF8: NULL (with the error indicator
\* set) when the str holds a lone surrogate, else the UTF-8 bytes
PyUnicode_AsUTF8String(s) ==
    IF \E i \in 1..Len(s) : IsSurrogate(s[i])
    THEN [null |-> TRUE, bytes |-> <<>>, err |-> TRUE]
    ELSE [null |-> FALSE, bytes |-> UTF8Encode(s), err |-> FALSE]

(***************************************************************************)
(* Numbers: long and double                                                *)
(***************************************************************************)
RECURSIVE Pow2(_)
Pow2(n) == IF n = 0 THEN 1 ELSE 2 * Pow2(n - 1)

LONG_MAX == Pow2(LongBits - 1) - 1
LONG_MIN == -Pow2(LongBits - 1)

\* Python ints are unbounded: the model takes them from twice the range of long
PyInts == (-Pow2(LongBits))..Pow2(LongBits)

\* PyLong_AsLong: the value, or -1 with OverflowError set when it does not fit
PyLong_AsLong(n) ==
    IF n > LONG_MAX \/ n < LONG_MIN
    THEN [result |-> -1, err |-> TRUE]
    ELSE [result |-> n, err |-> FALSE]

Abs(n) == IF n < 0 THEN -n ELSE n

\* the unit in the last place of the double nearest to magnitude m
RECURSIVE Ulp(_, _)
Ulp(m, u) == IF m < u * Pow2(MantBits) THEN u ELSE Ulp(m, 2 * u)

\* conversion long -> double of Napi::Number::New(env, double): round to
\* nearest, ties to even
LongToDouble(n) ==
    LET m == Abs(n)
        u == Ulp(m, 1)
        q == m \div u
        r == m % u
        rounded == IF 2 * r < u THEN q
                   ELSE IF 2 * r > u THEN q + 1
                   ELSE q + (q % 2)
    IN  (IF n < 0 THEN -1 ELSE 1) * rounded * u

\* the doubles of the model (as the integers they equal)
Doubles == {LongToDouble(n) : n \in PyInts}

(***************************************************************************)
(* Foreign (Python) values and host (JavaScript) values                    *)
(***************************************************************************)
OtherTypes == {"list", "dict"}

ForeignValues ==
    {<<"nullptr">>, <<"None">>}
    \cup {<<"Bool", b>> : b \in BOOLEAN}
    \cup {<<"Int", n>> : n \in PyInts}
    \cup {<<"Float", d>> : d \in Doubles}
    \cup {<<"Str", s>> : s \in PyStrings}
    \cup {<<"Other", ty>> : ty \in OtherTypes}

Py_None == <<"None">>
Py_True == <<"Bool", TRUE>>

PyBool_Check(o) == o[1] = "Bool"
\* bool is a subclass of int
PyLong_Check(o) == o[1] \in {"Int", "Bool"}
PyFloat_Check(o) == o[1] = "Float"
PyUnicode_Check(o) == o[1] = "Str"
PyFloat_AsDouble(o) == o[2]

\* "[Decoding Error]"
DecodingError ==
    <<91, 68, 101, 99, 111, 100, 105, 110, 103, 32, 69, 114, 114, 111, 114, 93>>

\* "[Unsupported Python Type]"
UnsupportedPythonType ==
    <<91, 85, 110, 115, 117, 112, 112, 111, 114, 116, 101, 100, 32, 80, 121, 116,
      104, 111, 110, 32, 84, 121, 112, 101, 93>>

\* Napi::String::New(env, std::string): the bytes decoded as UTF-8
NapiString(bytes) == <<"String", UTF8Decode(bytes)>>
NapiNumber(d) == <<"Number", d>>
NapiBoolean(b) == <<"Boolean", b>>

\* The long branch of PyObjectToNapiValue without its PyErr_Clear().
LongBranchNoClear(py_obj, err) ==
    LET r == PyLong_AsLong(py_obj[2])
        occurred == err \/ r.err
    IN  IF r.result = -1 /\ occurred
        THEN [val |-> NapiNumber(0), err |-> occurred]
        ELSE [val |-> NapiNumber(LongToDouble(r.result)), err |-> occurred]

\* python_bridge.cc:35-43
LongBranch(py_obj, err) ==
    LET r == PyLong_AsLong(py_obj[2])
        occurred == err \/ r.err
    IN  IF r.result = -1 /\ occurred
        THEN [val |-> NapiNumber(0), err |-> FALSE]
        ELSE [val |-> NapiNumber(LongToDouble(r.result)), err |-> occurred]

\* python_bridge.cc:51-61
UnicodeBranch(py_obj, err) ==
    LET py_bytes == PyUnicode_AsUTF8String(py_obj[2])
    IN  IF py_bytes.null
        THEN [val |-> <<"String", DecodingError>>, err |-> FALSE]
        ELSE [val |-> NapiString(CStr(py_bytes.bytes)), err |-> err]

\* python_bridge.cc:19-65.  err is the error indicator on entry; the result
\* carries the host value and the indicator on return.
PyObjectToNapiValue(py_obj, err) ==
    IF py_obj = <<"nullptr">> THEN [val |-> <<"Undefined">>, err |-> err]
    ELSE IF py_obj = Py_None THEN [val |-> <<"Null">>, err |-> err]
    ELSE IF PyBool_Check(py_obj)
         THEN [val |-> NapiBoolean(py_obj = Py_True), err |-> err]
    ELSE IF PyLong_Check(py_obj) THEN LongBranch(py_obj, err)
    ELSE IF PyFloat_Check(py_obj)
         THEN [val |-> NapiNumber(PyFloat_AsDouble(py_obj)), err |-> err]
    ELSE IF PyUnicode_Check(py_obj) THEN UnicodeBranch(py_obj, err)
    ELSE [val |-> <<"String", UnsupportedPythonType>>, err |-> err]

Pending == <<"Pending">>

(***************************************************************************)
(* The gateway executePythonSync                                           *)
(***************************************************************************)
Threads == 1..NumThreads

\* "Expected one string argument (Python code)."
ExpectedOneStringArgument ==
    <<69, 120, 112, 101, 99, 116, 101, 100, 32, 111, 110, 101, 32, 115, 116, 114,
      105, 110, 103, 32, 97, 114, 103, 117, 109, 101, 110, 116, 32, 40, 80, 121,
      116, 104, 111, 110, 32, 99, 111, 100, 101, 41, 46>>

\* "Failed to initialize Python interpreter."
FailedToInitializePython ==
    <<70, 97, 105, 108, 101, 100, 32, 116, 111, 32, 105, 110, 105, 116, 105, 97,
      108, 105, 122, 101, 32, 80, 121, 116, 104, 111, 110, 32, 105, 110, 116, 101,
      114, 112, 114, 101, 116, 101, 114, 46>>

\* "Failed to get Python __main__ module."
FailedToGetMainModule ==
    <<70, 97, 105, 108, 101, 100, 32, 116, 111, 32, 103, 101, 116, 32, 80, 121,
      116, 104, 111, 110, 32, 95, 95, 109, 97, 105, 110, 95, 95, 32, 109, 111,
      100, 117, 108, 101, 46>>

\* "Python Error: "
PythonErrorPrefix ==
    <<80, 121, 116, 104, 111, 110, 32, 69, 114, 114, 111, 114, 58, 32>>

\* "Unknown Python execution error."
UnknownPythonExecutionError ==
    <<85, 110, 107, 110, 111, 119, 110, 32, 80, 121, 116, 104, 111, 110, 32, 101,
      120, 101, 99, 117, 116, 105, 111, 110, 32, 101, 114, 114, 111, 114, 46>>

\* "Python code executed and output parsed by C++ bridge."
BridgeMessage ==
    <<80, 121, 116, 104, 111, 110, 32, 99, 111, 100, 101, 32, 101, 120, 101, 99,
      117, 116, 101, 100, 32, 97, 110, 100, 32, 111, 117, 116, 112, 117, 116, 32,
      112, 97, 114, 115, 101, 100, 32, 98, 121, 32, 67, 43, 43, 32, 98, 114, 105,
      100, 103, 101, 46>>

\* '{"result": 3628800, "input": 10}'
mock_json_output ==
    <<123, 34, 114, 101, 115, 117, 108, 116, 34, 58, 32, 51, 54, 50, 56, 56, 48,
      48, 44, 32, 34, 105, 110, 112, 117, 116, 34, 58, 32, 49, 48, 125>>

\* python_bridge.cc:73-96: the argument is not read
ParsePythonJsonOutput(json_string) ==
    [result  |-> NapiNumber(3628800),
     input   |-> NapiNumber(10),
     message |-> <<"String", BridgeMessage>>]

\* JSON objects a source may print (what a JSON parser would make of the text)
JsonObjects ==
    {[result |-> NapiNumber(120), input |-> NapiNumber(5)],
     [result |-> NapiNumber(3628800), input |-> NapiNumber(10)]}

\* what a source wrote to standard output by the time it completed
Outputs ==
    {[k |-> "empty"], [k |-> "invalid"]} \cup {[k |-> "json", obj |-> o] : o \in JsonObjects}

\* The argument of a call.  A source text is taken by what running it does:
\* it completes having printed something, or it raises.  A raised exception
\* has a value or not (PyErr_Fetch), its str() works or not, and gives a text.
Sources ==
    {[k |-> "nonstring"]}
    \cup {[k |-> "prints", out |-> o] : o \in Outputs}
    \cup {[k |-> "raises", hasValue |-> FALSE, strOk |-> FALSE, text |-> <<>>],
          [k |-> "raises", hasValue |-> TRUE, strOk |-> FALSE, text |-> <<>>]}
    \cup {[k |-> "raises", hasValue |-> TRUE, strOk |-> TRUE, text |-> s] : s \in PyStrings}

NoArg == [k |-> "none"]
NoOutcome == [k |-> "None"]
Succeeded(v) == [k |-> "Succeeded", value |-> v]
Threw(type, msg) == [k |-> "Threw", type |-> type, message |-> msg]
Crashed == [k |-> "Crashed"]

\* Napi::Error::New(env, std::string): the message bytes decoded as UTF-8
NapiError(bytes) == Threw("Error", UTF8Decode(bytes))

\* what `error_msg += (const char*)nullptr` may append when it does not crash
UBAppended == {<<>>, <<97>>}

\* The exception branch with `error_msg = ...` in place of `error_msg += ...`.
PythonErrorOutcomesNoPrefix(src) ==
    IF ~src.hasValue
    THEN {[out |-> NapiError(UnknownPythonExecutionError), err |-> FALSE, dead |-> FALSE]}
    ELSE IF ~src.strOk
    THEN {[out |-> NapiError(PythonErrorPrefix), err |-> TRUE, dead |-> FALSE]}
    ELSE LET u == PyUnicode_AsUTF8String(src.text)
         IN  IF u.null
             THEN {[out |-> Crashed, err |-> TRUE, dead |-> TRUE]}
                  \cup {[out |-> NapiError(b), err |-> TRUE, dead |-> FALSE] : b \in UBAppended}
             ELSE {[out |-> NapiError(CStr(u.bytes)), err |-> FALSE, dead |-> FALSE]}

\* python_bridge.cc:144-163: PyRun_String returned NULL.  The set of ways
\* the branch can end: the host error thrown, the error indicator left
\* behind, and whether the process died.  PyErr_Fetch clears the indicator;
\* a failing PyObject_Str or PyUnicode_AsUTF8 sets it again.  Appending the
\* NULL that PyUnicode_AsUTF8 returns for a lone surrogate is undefined
\* behaviour.
PythonErrorOutcomes(src) ==
    IF ~src.hasValue
    THEN {[out |-> NapiError(UnknownPythonExecutionError), err |-> FALSE, dead |-> FALSE]}
    ELSE IF ~src.strOk
    THEN {[out |-> NapiError(PythonErrorPrefix), err |-> TRUE, dead |-> FALSE]}
    ELSE LET u == PyUnicode_AsUTF8String(src.text)
         IN  IF u.null
             THEN {[out |-> Crashed, err |-> TRUE, dead |-> TRUE]}
                  \cup {[out |-> NapiError(PythonErrorPrefix \o b), err |-> TRUE, dead |-> FALSE]
                        : b \in UBAppended}
             ELSE {[out |-> NapiError(PythonErrorPrefix \o CStr(u.bytes)),
                    err |-> FALSE, dead |-> FALSE]}

Finish(t, o) ==
    /\ outcome' = [outcome EXCEPT ![t] = o]
    /\ pc' = [pc EXCEPT ![t] = "Returned"]

\* python_bridge.cc:105-114: entry and argument check
Call(t, src) ==
    /\ ~crashed
    /\ pc[t] = "Idle"
    /\ calls < MaxCalls
    /\ calls' = calls + 1
    /\ arg' = [arg EXCEPT ![t] = src]
    /\ IF src.k = "nonstring"
       THEN Finish(t, Threw("TypeError", ExpectedOneStringArgument))
       ELSE /\ pc' = [pc EXCEPT ![t] = "CheckInit"]
            /\ outcome' = [outcome EXCEPT ![t] = NoOutcome]
    /\ UNCHANGED <<python_initialized, pyIsInitialized, pyErr, didInit, ran, parsed,
                   pyInitSuccesses, prevFatal, crashed, marshalVars>>

\* python_bridge.cc:121: if (!python_initialized)
CheckInit(t) ==
    /\ ~crashed
    /\ pc[t] = "CheckInit"
    /\ pc' = [pc EXCEPT ![t] = IF python_initialized THEN "AddModule" ELSE "Initializing"]
    /\ UNCHANGED <<python_initialized, pyIsInitialized, pyErr, arg, outcome, didInit,
                   ran, parsed, calls, pyInitSuccesses, prevFatal, crashed, marshalVars>>

\* Py_Initialize(): nothing when the runtime is up, else bring-up that works or not
Py_Initialize(ok) ==
    /\ pyIsInitialized' = (pyIsInitialized \/ ok)
    /\ pyInitSuccesses' = IF ~pyIsInitialized /\ ok
                          THEN pyInitSuccesses + 1 ELSE pyInitSuccesses

\* The bring-up block without `python_initialized = true`.
InitializeNoFlag(t) ==
    /\ ~crashed
    /\ pc[t] = "Initializing"
    /\ \E ok \in BOOLEAN : Py_Initialize(ok)
    /\ didInit' = [didInit EXCEPT ![t] = TRUE]
    /\ IF ~pyIsInitialized'
       THEN Finish(t, NapiError(FailedToInitializePython))
       ELSE /\ pc' = [pc EXCEPT ![t] = "AddModule"]
            /\ UNCHANGED outcome
    /\ UNCHANGED <<python_initialized, pyErr, arg, ran, parsed, calls, prevFatal, crashed,
                   marshalVars>>

\* The bring-up block with the flag set before Py_IsInitialized() is tested.
InitializeFlagFirst(t) ==
    /\ ~crashed
    /\ pc[t] = "Initializing"
    /\ \E ok \in BOOLEAN : Py_Initialize(ok)
    /\ didInit' = [didInit EXCEPT ![t] = TRUE]
    /\ python_initialized' = TRUE
    /\ IF ~pyIsInitialized'
       THEN Finish(t, NapiError(FailedToInitializePython))
       ELSE /\ pc' = [pc EXCEPT ![t] = "AddModule"]
            /\ UNCHANGED outcome
    /\ UNCHANGED <<pyErr, arg, ran, parsed, calls, prevFatal, crashed, marshalVars>>

\* python_bridge.cc:122-129
Initialize(t) ==
    /\ ~crashed
    /\ pc[t] = "Initializing"
    /\ \E ok \in BOOLEAN : Py_Initialize(ok)
    /\ didInit' = [didInit EXCEPT ![t] = TRUE]
    /\ IF ~pyIsInitialized'
       THEN /\ Finish(t, NapiError(FailedToInitializePython))
            /\ UNCHANGED python_initialized
       ELSE /\ python_initialized' = TRUE
            /\ pc' = [pc EXCEPT ![t] = "AddModule"]
            /\ UNCHANGED outcome
    /\ UNCHANGED <<pyErr, arg, ran, parsed, calls, prevFatal, crashed, marshalVars>>

\* python_bridge.cc:131-142: PyImport_AddModule may fail (it sets the error
\* indicator); otherwise PyRun_String is entered
AddModule(t) ==
    /\ ~crashed
    /\ pc[t] = "AddModule"
    /\ \E ok \in BOOLEAN :
         IF ok
         THEN /\ pc' = [pc EXCEPT ![t] = "Executing"]
              /\ ran' = [ran EXCEPT ![t] = TRUE]
              /\ UNCHANGED <<outcome, pyErr>>
         ELSE /\ Finish(t, NapiError(FailedToGetMainModule))
              /\ pyErr' = TRUE
              /\ UNCHANGED ran
    /\ UNCHANGED <<python_initialized, pyIsInitialized, arg, didInit, parsed, calls,
                   pyInitSuccesses, prevFatal, crashed, marshalVars>>

\* python_bridge.cc:142-176: PyRun_String returns; the exception branch, or
\* the mocked capture and parse
RunString(t) ==
    /\ ~crashed
    /\ pc[t] = "Executing"
    /\ IF arg[t].k = "raises"
       THEN \E r \in PythonErrorOutcomes(arg[t]) :
              /\ outcome' = [outcome EXCEPT ![t] = r.out]
              /\ pc' = [pc EXCEPT ![t] = IF r.dead THEN "Dead" ELSE "Returned"]
              /\ pyErr' = r.err
              /\ crashed' = r.dead
              /\ UNCHANGED parsed
       ELSE /\ parsed' = [parsed EXCEPT ![t] = TRUE]
            /\ Finish(t, Succeeded(ParsePythonJsonOutput(mock_json_output)))
            /\ UNCHANGED <<pyErr, crashed>>
    /\ UNCHANGED <<python_initialized, pyIsInitialized, arg, didInit, ran, calls,
                   pyInitSuccesses, prevFatal, marshalVars>>

\* the call is over: the host has the value or the pending JavaScript
\* exception, and the call's locals are gone
Return(t) ==
    /\ ~crashed
    /\ pc[t] = "Returned"
    /\ pc' = [pc EXCEPT ![t] = "Idle"]
    /\ prevFatal' = (outcome[t] = NapiError(FailedToInitializePython))
    /\ arg' = [arg EXCEPT ![t] = NoArg]
    /\ outcome' = [outcome EXCEPT ![t] = NoOutcome]
    /\ didInit' = [didInit EXCEPT ![t] = FALSE]
    /\ ran' = [ran EXCEPT ![t] = FALSE]
    /\ parsed' = [parsed EXCEPT ![t] = FALSE]
    /\ UNCHANGED <<python_initialized, pyIsInitialized, pyErr, calls, pyInitSuccesses,
                   crashed, marshalVars>>

\* no other thread is inside executePythonSync
Alone(t) == \A u \in Threads \ {t} : pc[u] = "Idle"

InitGateway ==
    /\ python_initialized = FALSE
    /\ pyIsInitialized = FALSE
    /\ pyErr = FALSE
    /\ pc = [t \in Threads |-> "Idle"]
    /\ arg = [t \in Threads |-> NoArg]
    /\ outcome = [t \in Threads |-> NoOutcome]
    /\ didInit = [t \in Threads |-> FALSE]
    /\ ran = [t \in Threads |-> FALSE]
    /\ parsed = [t \in Threads |-> FALSE]
    /\ calls = 0
    /\ pyInitSuccesses = 0
    /\ prevFatal = FALSE
    /\ crashed = FALSE

Init ==
    /\ InitGateway
    /\ mIn = <<"nullptr">>
    /\ mOut = Pending

\* a call issued while no other call is in flight
SeqCall(t, src) == Alone(t) /\ Call(t, src)

\* calls one after another, as the JavaScript thread issues them
Next ==
    \E t \in Threads :
        \/ \E src \in Sources : SeqCall(t, src)
        \/ CheckInit(t)
        \/ Initialize(t)
        \/ AddModule(t)
        \/ RunString(t)
        \/ Return(t)

Spec == Init /\ [][Next]_vars

\* calls from threads that each loaded the addon: the code takes no lock
NextConc ==
    \E t \in Threads :
        \/ \E src \in Sources : Call(t, src)
        \/ CheckInit(t)
        \/ Initialize(t)
        \/ AddModule(t)
        \/ RunString(t)
        \/ Return(t)

SpecConc == Init /\ [][NextConc]_vars

(***************************************************************************)
(* The marshaller applied to every foreign value                           *)
(***************************************************************************)
Convert ==
    /\ mOut = Pending
    /\ LET r == PyObjectToNapiValue(mIn, pyErr)
       IN  /\ mOut' = r.val
           /\ pyErr' = r.err
    /\ UNCHANGED <<mIn, gatewayVars>>

Load(v) ==
    /\ mOut # Pending
    /\ mIn' = v
    /\ mOut' = Pending
    /\ UNCHANGED <<pyErr, gatewayVars>>

InitMarshal ==
    /\ InitGateway
    /\ mIn \in ForeignValues
    /\ mOut = Pending

NextMarshal == Convert \/ \E v \in ForeignValues : Load(v)

SpecMarshal == InitMarshal /\ [][NextMarshal]_vars

(***************************************************************************)
(* Properties                                                              *)
(***************************************************************************)
HasPrefix(s, p) == Len(s) >= Len(p) /\ SubSeq(s, 1, Len(p)) = p

Contains(s, sub) ==
    \E i \in 0..(Len(s) - Len(sub)) : SubSeq(s, i + 1, i + Len(sub)) = sub

\* the call of thread t is over (it returned, threw, or took the process down)
Ended(t) == pc[t] \in {"Returned", "Dead"}

\* the three messages the specification lists
\* "Failed to initialize interpreter"
SpecFailedToInitialize ==
    <<70, 97, 105, 108, 101, 100, 32, 116, 111, 32, 105, 110, 105, 116, 105,
      97, 108, 105, 122, 101, 32, 105, 110, 116, 101, 114, 112, 114, 101, 116,
      101, 114>>

\* "<RuntimeError>: "
SpecRuntimeErrorPrefix ==
    <<60, 82, 117, 110, 116, 105, 109, 101, 69, 114, 114, 111, 114, 62, 58, 32>>

\* "<ParseError>: captured output was not valid structured data"
SpecParseError ==
    <<60, 80, 97, 114, 115, 101, 69, 114, 114, 111, 114, 62, 58, 32, 99, 97,
      112, 116, 117, 114, 101, 100, 32, 111, 117, 116, 112, 117, 116, 32, 119,
      97, 115, 32, 110, 111, 116, 32, 118, 97, 108, 105, 100, 32, 115, 116,
      114, 117, 99, 116, 117, 114, 101, 100, 32, 100, 97, 116, 97>>

\* C1: a call whose source completed having printed one well-formed JSON
\* object returns a value that deep-equals the printed object.
C1_ReturnsPrintedObject ==
    \A t \in Threads :
        (Ended(t) /\ ran[t] /\ arg[t].k = "prints" /\ arg[t].out.k = "json")
        => outcome[t] = Succeeded(arg[t].out.obj)

\* C2: a call whose source completed having printed nothing, or text that is
\* not structured data, ends in failure, never in a Succeeded result.
C2_BadOutputFails ==
    \A t \in Threads :
        (Ended(t) /\ ran[t] /\ arg[t].k = "prints" /\ arg[t].out.k \in {"empty", "invalid"})
        => outcome[t].k = "Threw"

\* C3: a call whose source raised ends by throwing a host error whose message
\* contains the exception's string form (when it has one), without reaching
\* the parsing step, with python_initialized still true and the process alive.
C3_RaiseReported ==
    \A t \in Threads :
        (Ended(t) /\ ran[t] /\ arg[t].k = "raises")
        => /\ outcome[t].k = "Threw"
           /\ (arg[t].hasValue /\ arg[t].strOk)
                => Contains(outcome[t].message, arg[t].text)
           /\ ~parsed[t]
           /\ python_initialized
           /\ ~crashed

\* C4: over sequential calls, python_initialized never goes from true to
\* false, interpreter bring-up succeeds at most once, and once it has
\* succeeded no call enters the Initializing step.
C4_InitOnce ==
    [][/\ python_initialized => python_initialized'
       /\ pyInitSuccesses' <= 1
       /\ pyInitSuccesses >= 1 => \A t \in Threads : pc'[t] # "Initializing"]_vars

C4_Witness ==
    \E t \in Threads :
        /\ calls >= 2
        /\ pyInitSuccesses = 1
        /\ pc[t] = "Executing"
        /\ ~didInit[t]

C6_Serialized ==
    \A t, u \in Threads :
        t # u => /\ ~(pc[t] = "Executing" /\ pc[u] = "Executing")
                 /\ ~(pc[t] = "Initializing" /\ pc[u] = "Initializing")

\* C7 as stated: every host error carries one of the three messages of the
\* specification.
C7_ThreeMessages ==
    \A t \in Threads :
        outcome[t].k = "Threw"
        => \/ outcome[t].message = SpecFailedToInitialize
           \/ HasPrefix(outcome[t].message, SpecRuntimeErrorPrefix)
           \/ outcome[t].message = SpecParseError

\* C7 as amended: every host error carries one of the five messages of the
\* source, the fifth being "Python Error: " followed by text.
C7_FiveMessages ==
    \A t \in Threads :
        outcome[t].k = "Threw"
        => \/ outcome[t].message \in {ExpectedOneStringArgument, FailedToInitializePython,
                                      FailedToGetMainModule, UnknownPythonExecutionError}
           \/ HasPrefix(outcome[t].message, PythonErrorPrefix)

C7_Witness ==
    \E t \in Threads :
        /\ pc[t] = "Returned"
        /\ arg[t].k = "raises"
        /\ outcome[t].k = "Threw"
        /\ Len(outcome[t].message) > Len(PythonErrorPrefix)

IsHostValue(v) ==
    \/ v \in {<<"Undefined">>, <<"Null">>}
    \/ v[1] = "Boolean" /\ v[2] \in BOOLEAN
    \/ v[1] = "Number" /\ v[2] \in Doubles
    \/ v[1] = "String" /\ \A i \in 1..Len(v[2]) : v[2][i] \in 0..1114111

Overflows(v) == v[1] = "Int" /\ PyLong_AsLong(v[2]).err
Undecodable(v) == v[1] = "Str" /\ PyUnicode_AsUTF8String(v[2]).null

\* C8: PyObjectToNapiValue returns a host value for every foreign value and
\* leaves no error pending; an int that overflows long gives the number 0, a
\* str that does not encode gives "[Decoding Error]", a value of another type
\* gives "[Unsupported Python Type]".
C8_ToHostTotal ==
    mOut # Pending
    => /\ IsHostValue(mOut)
       /\ ~pyErr
       /\ Overflows(mIn) => mOut = NapiNumber(0)
       /\ Undecodable(mIn) => mOut = <<"String", DecodingError>>
       /\ mIn[1] = "Other" => mOut = <<"String", UnsupportedPythonType>>

C8_Witness ==
    /\ mIn = <<"Int", LONG_MAX + 1>>
    /\ mOut = NapiNumber(0)

\* the supported scalars: None, bool, an int that long and double hold
\* exactly, float, a str that encodes as UTF-8
SupportedScalar(v) ==
    \/ v = Py_None
    \/ v[1] \in {"Bool", "Float"}
    \/ v[1] = "Int" /\ ~Overflows(v) /\ Abs(v[2]) <= Pow2(MantBits)
    \/ v[1] = "Str" /\ ~Undecodable(v)

\* the host value of the corresponding kind with the identical value
SameValue(v) ==
    IF v = Py_None THEN <<"Null">>
    ELSE IF v[1] = "Bool" THEN <<"Boolean", v[2]>>
    ELSE IF v[1] \in {"Int", "Float"} THEN <<"Number", v[2]>>
    ELSE <<"String", v[2]>>

\* C9: every supported scalar converts to the host value of the corresponding
\* kind with the identical value.
C9_ScalarIdentity ==
    (mOut # Pending /\ SupportedScalar(mIn)) => mOut = SameValue(mIn)

\* C10: the value returned for an int that overflows differs from the value
\* returned for every int that converts without loss.
C10_OverflowDetectable ==
    (mOut # Pending /\ Overflows(mIn))
    => \A n \in PyInts :
         (~Overflows(<<"Int", n>>) /\ LongToDouble(n) = n)
         => PyObjectToNapiValue(<<"Int", n>>, FALSE).val # mOut

====
